---- MODULE Spec2Model ----
(***************************************************************************)
(* Message Reader (src/routes/index.tsx): the resolver pipeline            *)
(* (readContractOnServer) and the typewriter reveal (executeRead), with    *)
(* the page's signals as shared state and every call of executeRead as a   *)
(* process that runs to completion between its awaits.                     *)
(*                                                                         *)
(* Strings are sequences of UTF-16 code units, each unit written as a      *)
(* one-element token ("a", " ", "D83D" for a surrogate half).              *)
(***************************************************************************)
EXTENDS Integers, Sequences, FiniteSets, TLC

\* Number of executeRead calls that pass validation in one run.
MaxReq == 2

(***************************************************************************)
(* Strings                                                                 *)
(***************************************************************************)
Whitespace == {" ", "\t", "\n"}

LowerHex == {"0","1","2","3","4","5","6","7","8","9","a","b","c","d","e","f"}
UpperHex == {"0","1","2","3","4","5","6","7","8","9","A","B","C","D","E","F"}

RECURSIVE TrimStart(_)
TrimStart(s) ==
  IF s = <<>> THEN <<>>
  ELSE IF Head(s) \in Whitespace THEN TrimStart(Tail(s)) ELSE s

RECURSIVE TrimEnd(_)
TrimEnd(s) ==
  IF s = <<>> THEN <<>>
  ELSE IF s[Len(s)] \in Whitespace THEN TrimEnd(SubSeq(s, 1, Len(s) - 1)) ELSE s

\* String.prototype.trim
Trim(s) == TrimEnd(TrimStart(s))

Repeat(c, n) == [k \in 1..n |-> c]

\* The example address of the page, a mixed-case address whose checksum is valid.
ExampleAddress ==
  <<"0","x","0","1","C","7","6","8","D","9","B","8","F","f","C","b","8","3",
    "D","C","9","5","d","B","0","E","F","5","c","7","B","b","E","8","5","6",
    "4","8","1","6","c","a">>

\* Mixed-case addresses known to carry a valid EIP-55 checksum.
ChecksumValid == {ExampleAddress}

\* Number of hex digits of an address.
AddressHexLen == 40

\* ethers.isAddress: an optional 0x prefix and 40 hex digits; a mixed-case
\* address must also carry a valid checksum (the ICAP form is left out).
isAddress(s) ==
  LET body == IF Len(s) >= 2 /\ s[1] = "0" /\ s[2] = "x"
                THEN SubSeq(s, 3, Len(s)) ELSE s
      full == IF Len(s) >= 2 /\ s[1] = "0" /\ s[2] = "x"
                THEN s ELSE <<"0", "x">> \o s
  IN  /\ Len(body) = AddressHexLen
      /\ \A k \in 1..Len(body) : body[k] \in LowerHex \cup UpperHex
      /\ \/ \A k \in 1..Len(body) : body[k] \in LowerHex
         \/ \A k \in 1..Len(body) : body[k] \in UpperHex
         \/ full \in ChecksumValid

\* Some address strings: turned away by the guards of executeRead (Empty to
\* Padded) or accepted by them (AddrA, and AddrB without its 0x prefix).
Empty   == <<>>
Blank   == <<" ", " ">>
Short   == <<"0", "x", "1", "2">>
Padded  == <<" ", "0", "x">> \o Repeat("a", AddressHexLen)
AddrA   == <<"0", "x">> \o Repeat("a", AddressHexLen)
AddrB   == Repeat("b", AddressHexLen)

\* What is typed into the box, and what a share link's ?address= may carry.
Inputs    == {Blank, Short, AddrA}
UrlParams == {Empty, Padded, AddrB}

\* The two guards at the head of executeRead: which inputs are turned away.
RejectsNoFormatCheck(address) == Trim(address) = <<>>
Rejects(address) == Trim(address) = <<>> \/ ~isAddress(address)

(***************************************************************************)
(* Error texts                                                             *)
(***************************************************************************)
EnterAddressMsg  == "Please enter a contract address"
InvalidFormatMsg == "Invalid contract address format, please check and try again"
NotAContractMsg  == "This address is not a contract or does not exist"
UnverifiedMsg    == "Contract not verified on Etherscan.\n\nPlease verify your contract first."
NoMessageMsg     == "No message found in this contract."
FallbackMsg      == "Failed to read contract"

\* The texts of the InvalidAddress class.
InvalidAddressMsgs == {EnterAddressMsg, InvalidFormatMsg}

\* catch (err): error.value = err.message || 'Failed to read contract'
CaughtMessageRaw(m) == m
CaughtMessage(m) == IF m = "" THEN FallbackMsg ELSE m

(***************************************************************************)
(* Interfaces (ABI) and the explorer's answers                             *)
(***************************************************************************)
Fn(name, mutability, inputs, outputs) ==
  [type |-> "function", name |-> name, stateMutability |-> mutability,
   inputs |-> inputs, outputs |-> [defined |-> TRUE, items |-> outputs]]

EventItem(name, inputs) ==
  [type |-> "event", name |-> name, stateMutability |-> "none",
   inputs |-> inputs, outputs |-> [defined |-> FALSE, items |-> <<>>]]

Constructor(inputs) ==
  [type |-> "constructor", name |-> "", stateMutability |-> "nonpayable",
   inputs |-> inputs, outputs |-> [defined |-> FALSE, items |-> <<>>]]

\* The filter of readContractOnServer (item.outputs?.length tolerates a
\* descriptor without outputs).
IsNotPayableOnly(item) ==
  /\ item.type = "function"
  /\ item.stateMutability \in {"view", "pure", "nonpayable"}
  /\ Len(item.inputs) = 0
  /\ item.outputs.defined
  /\ Len(item.outputs.items) = 1
  /\ item.outputs.items[1] = "string"
IsStringFunction(item) ==
  /\ item.type = "function"
  /\ item.stateMutability \in {"view", "pure"}
  /\ Len(item.inputs) = 0
  /\ item.outputs.defined
  /\ Len(item.outputs.items) = 1
  /\ item.outputs.items[1] = "string"

\* abi.filter(...): the indices of the matching descriptors, in declaration order.
RECURSIVE FilterFrom(_, _)
FilterFrom(abi, k) ==
  IF k > Len(abi) THEN <<>>
  ELSE IF IsStringFunction(abi[k]) THEN <<k>> \o FilterFrom(abi, k + 1)
  ELSE FilterFrom(abi, k + 1)

stringFunctions(abi) == FilterFrom(abi, 1)

\* contract[name](...args): ethers looks the method up by name among the
\* function fragments that take that many arguments; 0 when there is none.
\* (Interfaces here have unique signatures and no function named like a
\* member of ethers.Contract itself.)
ResolveByNameOnly(abi, name, nargs) ==
  LET hits == {k \in 1..Len(abi) : abi[k].type = "function" /\ abi[k].name = name}
  IN  IF hits = {} THEN 0 ELSE CHOOSE k \in hits : \A j \in hits : k <= j
ResolveCall(abi, name, nargs) ==
  LET hits == {k \in 1..Len(abi) :
                 /\ abi[k].type = "function"
                 /\ abi[k].name = name
                 /\ Len(abi[k].inputs) = nargs}
  IN  IF hits = {} THEN 0 ELSE CHOOSE k \in hits : \A j \in hits : k <= j

AbiEmpty == <<>>

\* No candidate: wrong kind, wrong mutability, inputs, wrong or several outputs.
AbiNoCandidate ==
  << Constructor(<<"string">>),
     EventItem("MessageChanged", <<"string">>),
     Fn("setMessage", "nonpayable", <<"string">>, <<>>),
     Fn("touch", "nonpayable", <<>>, <<"string">>),
     Fn("count", "view", <<>>, <<"uint256">>),
     Fn("pair", "view", <<>>, <<"string", "string">>),
     Fn("messageAt", "view", <<"uint256">>, <<"string">>) >>

\* One candidate, declared after non-matching descriptors, one of which
\* is an overload with the candidate's name.
AbiLate ==
  << EventItem("MessageChanged", <<"string">>),
     Fn("getMessage", "view", <<"uint256">>, <<"string">>),
     Fn("count", "view", <<>>, <<"uint256">>),
     Fn("getMessage", "view", <<>>, <<"string">>) >>

\* Several candidates.
AbiSeveral ==
  << Fn("setMessage", "nonpayable", <<"string">>, <<>>),
     Fn("motto", "pure", <<>>, <<"string">>),
     Fn("getMessage", "view", <<>>, <<"string">>) >>

Abis == {AbiEmpty, AbiNoCandidate, AbiLate, AbiSeveral}

\* JSON.parse(data.result): the payload is the JSON text of an interface or
\* some other text (the explorer's error string).
SyntaxErrorMsg == "Unexpected token"
JSONparse(payload) ==
  IF payload.kind = "json" THEN [ok |-> TRUE, value |-> payload.value]
  ELSE [ok |-> FALSE, message |-> SyntaxErrorMsg]

\* !data.result
Falsy(payload) == payload.kind \in {"missing", "empty"}

\* data.status !== '1' || !data.result
NotVerifiedOnZeroOnly(data) == data.status = "0" \/ Falsy(data.result)
NotVerified(data) == data.status # "1" \/ Falsy(data.result)

Payloads ==
  {[kind |-> "missing", value |-> <<>>],
   [kind |-> "empty", value |-> <<>>],
   [kind |-> "text", value |-> <<>>]}
  \cup {[kind |-> "json", value |-> a] : a \in Abis}

\* What the explorer request produces: a rejected fetch, or a body with a
\* status field and a result field under any HTTP status.
ExplorerAnswers ==
  {[rejected |-> TRUE, message |-> "timeout", httpOk |-> FALSE,
    status |-> "missing", result |-> [kind |-> "missing", value |-> <<>>]]}
  \cup {[rejected |-> FALSE, message |-> "", httpOk |-> h, status |-> st, result |-> p] :
          h \in BOOLEAN, st \in {"1", "0", "missing"}, p \in Payloads}

\* provider.getCode: the bytecode, or a transport failure.
EmptyCode == "0x"

\* code === '0x'
IsEmptyString(code) == code = ""
IsEmptyCode(code) == code = EmptyCode
CodeAnswers ==
  {[rejected |-> FALSE, message |-> "", code |-> c] : c \in {EmptyCode, "0x6080"}}
  \cup {[rejected |-> TRUE, message |-> "timeout", code |-> ""]}

\* The messages a contract holds, as UTF-16 code units ("D83D","DC4B" is one emoji).
MsgEmpty == <<>>
MsgOk    == <<"o", "k">>
MsgWave  == <<"D83D", "DC4B">>
Messages == {MsgEmpty, MsgOk, MsgWave}

\* result.split(''): one element per UTF-16 code unit.
SplitDropLast(s) == IF Len(s) > 1 THEN SubSeq(s, 1, Len(s) - 1) ELSE s
Split(s) == [k \in 1..Len(s) |-> <<s[k]>>]

\* `${origin}${pathname}?address=${address}`
ShareUrl(address) == <<"?address=">> \o address

(***************************************************************************)
(* State                                                                   *)
(***************************************************************************)
VARIABLES
  contractAddress,  \* signal: the text of the input box
  contractResult,   \* signal: the displayed message
  isLoading,        \* signal
  error,            \* signal: the displayed error text
  isTyping,         \* signal: the reveal's in-progress flag
  shareUrl,         \* signal
  loaded,           \* the on-load task has run
  onchain,          \* the message the contract holds
  nreq,             \* executeRead calls that passed validation so far
  proc,             \* per call of executeRead: where it is suspended and its locals
  lastReveal,       \* the call whose reveal started last (0: none yet)
  ev                \* the step taken last: what ran, for which call, on what answer,
                    \* and the call's locals as it returned if the step ended it

vars == <<contractAddress, contractResult, isLoading, error, isTyping, shareUrl,
          loaded, onchain, nreq, proc, lastReveal, ev>>

signals == <<contractAddress, contractResult, isLoading, error, isTyping, shareUrl>>

Reqs == 1..MaxReq

\* A call that has not been made yet.
IdleProc ==
  [pc |-> "idle", address |-> <<>>, abi |-> <<>>, func |-> 0, called |-> 0,
   result |-> <<>>, chars |-> <<>>, i |-> 0, ops |-> <<>>, failed |-> FALSE,
   overlapped |-> FALSE]

\* A call that has returned: its locals are gone.
DoneProc == [IdleProc EXCEPT !.pc = "done"]

Active(q) == proc[q].pc \notin {"idle", "done"}

Event(kind, r, data, call) == [kind |-> kind, req |-> r, data |-> data, call |-> call]

NoEvent == Event("none", 0, <<>>, IdleProc)

Init ==
  /\ contractAddress = <<>>
  /\ contractResult = <<>>
  /\ isLoading = FALSE
  /\ error = ""
  /\ isTyping = FALSE
  /\ shareUrl = <<>>
  /\ loaded = FALSE
  /\ onchain \in Messages
  /\ nreq = 0
  /\ proc = [r \in Reqs |-> IdleProc]
  /\ lastReveal = 0
  /\ ev = NoEvent

(***************************************************************************)
(* executeRead, up to its first await                                      *)
(***************************************************************************)
\* The synchronous head of executeRead(address): the two guards, then the
\* reset of the signals and the call of readContractOnServer, which issues
\* provider.getCode and suspends.
ExecuteRead(address) ==
  IF Rejects(address)
  THEN /\ error' = IF Trim(address) = <<>> THEN EnterAddressMsg ELSE InvalidFormatMsg
       /\ ev' = Event("rejected", 0, address, IdleProc)
       /\ UNCHANGED <<contractResult, isLoading, isTyping, shareUrl, onchain,
                      nreq, proc, lastReveal>>
  ELSE /\ nreq < MaxReq
       /\ LET r == nreq + 1
              busy == {q \in Reqs : Active(q)}
          IN  /\ nreq' = r
              /\ proc' = [q \in Reqs |->
                           IF q = r
                             THEN [IdleProc EXCEPT !.pc = "getCode",
                                                   !.address = address,
                                                   !.ops = <<"validate", "getCode">>,
                                                   !.overlapped = (busy # {})]
                           ELSE IF q \in busy
                             THEN [proc[q] EXCEPT !.overlapped = TRUE]
                           ELSE proc[q]]
              /\ ev' = Event("started", r, address, IdleProc)
       /\ isLoading' = TRUE
       /\ error' = ""
       /\ contractResult' = <<>>
       /\ UNCHANGED <<isTyping, shareUrl, onchain, lastReveal>>

\* onInput$ of the address box.
Input(s) ==
  /\ contractAddress' = s
  /\ error' = ""
  /\ ev' = Event("input", 0, <<>>, IdleProc)
  /\ UNCHANGED <<contractResult, isLoading, isTyping, shareUrl, loaded, onchain,
                 nreq, proc, lastReveal>>

\* onClick$ of the Read button, which is disabled while isLoading.
Click ==
  /\ ~isLoading
  /\ ExecuteRead(contractAddress)
  /\ UNCHANGED <<contractAddress, loaded>>

\* onKeyPress$ with Enter in the address box.
Enter ==
  /\ ExecuteRead(contractAddress)
  /\ UNCHANGED <<contractAddress, loaded>>

\* useVisibleTask$: the ?address= parameter of the page's URL, once.
OnLoad(param) ==
  /\ ~loaded
  /\ loaded' = TRUE
  /\ IF param # <<>>
       THEN /\ contractAddress' = param
            /\ ExecuteRead(param)
       ELSE /\ ev' = Event("load", 0, <<>>, IdleProc)
            /\ UNCHANGED <<contractAddress, contractResult, isLoading, error, isTyping,
                           shareUrl, onchain, nreq, proc, lastReveal>>

\* Someone writes a new message to the contract (while a call of the run can
\* still read it).
ChainWrite(m) ==
  /\ m # onchain
  /\ \E r \in Reqs : proc[r].pc \in {"idle", "getCode", "fetch", "invoke"}
  /\ onchain' = m
  /\ ev' = Event("chain", 0, <<>>, IdleProc)
  /\ UNCHANGED <<signals, loaded, nreq, proc, lastReveal>>

(***************************************************************************)
(* The continuations of a call r                                           *)
(***************************************************************************)
\* throw inside the try of executeRead: catch writes the message (or the
\* fallback), finally clears isLoading, and the call is over.
FailAndRetry(r, message, kind, data, attempted) ==
  /\ proc' = [proc EXCEPT ![r].ops = Append(proc[r].ops, kind)]
  /\ ev' = Event(kind, r, data, IdleProc)
  /\ UNCHANGED <<signals, loaded, onchain, nreq, lastReveal>>
FailWithoutAbort(r, message, kind, data, attempted) ==
  /\ error' = CaughtMessage(message)
  /\ proc' = [proc EXCEPT ![r].failed = TRUE]
  /\ ev' = Event(kind, r, data, IdleProc)
  /\ UNCHANGED <<contractAddress, contractResult, isLoading, isTyping, shareUrl, loaded,
                 onchain, nreq, lastReveal>>
Fail(r, message, kind, data, attempted) ==
  /\ error' = CaughtMessage(message)
  /\ isLoading' = FALSE
  /\ proc' = [proc EXCEPT ![r] = DoneProc]
  /\ ev' = Event(kind, r, data,
                 [proc[r] EXCEPT !.pc = "done", !.failed = TRUE,
                                 !.ops = proc[r].ops \o attempted])
  /\ UNCHANGED <<contractAddress, contractResult, isTyping, shareUrl, loaded, onchain,
                 nreq, lastReveal>>

\* provider.getCode answers.
GetCodeReturn(r, ans) ==
  /\ proc[r].pc = "getCode"
  /\ IF ans.rejected THEN Fail(r, ans.message, "getCode", ans, <<>>)
     ELSE IF IsEmptyCode(ans.code) THEN Fail(r, NotAContractMsg, "getCode", ans, <<>>)
     ELSE /\ proc' = [proc EXCEPT ![r].pc = "fetch",
                                  ![r].ops = Append(proc[r].ops, "fetch")]
          /\ ev' = Event("getCode", r, ans, IdleProc)
          /\ UNCHANGED <<signals, loaded, onchain, nreq, lastReveal>>

\* fetch(etherscanUrl) and response.json() answer; the interface is parsed,
\* filtered, and the first match is called.
FetchReturn(r, ans) ==
  /\ proc[r].pc = "fetch"
  /\ IF ans.rejected THEN Fail(r, ans.message, "fetch", ans, <<>>)
     ELSE IF NotVerified(ans) THEN Fail(r, UnverifiedMsg, "fetch", ans, <<>>)
     ELSE LET parsed == JSONparse(ans.result) IN
       IF ~parsed.ok THEN Fail(r, parsed.message, "fetch", ans, <<>>)
       ELSE LET abi == parsed.value
                matches == stringFunctions(abi)
            IN IF Len(matches) = 0
                 THEN Fail(r, NoMessageMsg, "fetch", ans, <<"select">>)
                 ELSE /\ proc' = [proc EXCEPT
                                    ![r].pc = "invoke",
                                    ![r].abi = abi,
                                    ![r].func = matches[1],
                                    ![r].called = ResolveCall(abi, abi[matches[1]].name, 0),
                                    ![r].ops = proc[r].ops \o <<"select", "invoke">>]
                      /\ ev' = Event("fetch", r, ans, IdleProc)
                      /\ UNCHANGED <<signals, loaded, onchain, nreq, lastReveal>>

\* What the contract call produces: the stored message, or a failure
\* (transport error, revert, timeout) with or without a message.
CallAnswersCached ==
  {[rejected |-> FALSE, message |-> "", value |-> MsgOk]}
  \cup {[rejected |-> TRUE, message |-> m, value |-> <<>>] :
          m \in {"", "timeout"}}
CallAnswers ==
  {[rejected |-> FALSE, message |-> "", value |-> onchain]}
  \cup {[rejected |-> TRUE, message |-> m, value |-> <<>>] :
          m \in {"", "timeout"}}

\* contract[func.name]() answers and readContractOnServer returns; executeRead
\* sets the share link and starts the typewriter loop, which suspends on its
\* first timer (a message without units leaves the loop at once).
InvokeReturn(r, ans) ==
  /\ proc[r].pc = "invoke"
  /\ IF ans.rejected THEN Fail(r, ans.message, "invoke", ans, <<>>)
     ELSE LET chars == Split(ans.value)
              call  == [proc[r] EXCEPT !.abi = <<>>, !.result = ans.value,
                                       !.chars = chars, !.i = 0,
                                       !.ops = Append(proc[r].ops, "reveal")]
          IN
          /\ shareUrl' = ShareUrl(proc[r].address)
          /\ contractResult' = <<>>
          /\ lastReveal' = r
          /\ IF Len(chars) = 0
               THEN /\ isTyping' = FALSE
                    /\ isLoading' = FALSE
                    /\ proc' = [proc EXCEPT ![r] = DoneProc]
                    /\ ev' = Event("invoke", r, ans, [call EXCEPT !.pc = "done"])
               ELSE /\ isTyping' = TRUE
                    /\ isLoading' = isLoading
                    /\ proc' = [proc EXCEPT ![r] = [call EXCEPT !.pc = "tick"]]
                    /\ ev' = Event("invoke", r, ans, IdleProc)
          /\ UNCHANGED <<contractAddress, error, loaded, onchain, nreq>>

\* The 30 ms timer of the loop fires: one more unit is appended; after the
\* last unit the loop ends, isTyping and (finally) isLoading are cleared.
Tick(r) ==
  /\ proc[r].pc = "tick"
  /\ contractResult' = contractResult \o proc[r].chars[proc[r].i + 1]
  /\ IF proc[r].i + 1 < Len(proc[r].chars)
       THEN /\ proc' = [proc EXCEPT ![r].i = proc[r].i + 1]
            /\ ev' = Event("tick", r, proc[r].i + 1, IdleProc)
            /\ UNCHANGED <<isTyping, isLoading>>
       ELSE /\ proc' = [proc EXCEPT ![r] = DoneProc]
            /\ ev' = Event("tick", r, proc[r].i + 1,
                           [proc[r] EXCEPT !.i = proc[r].i + 1, !.pc = "done"])
            /\ isTyping' = FALSE
            /\ isLoading' = FALSE
  /\ UNCHANGED <<contractAddress, error, shareUrl, loaded, onchain, nreq, lastReveal>>

Next ==
  \/ \E s \in Inputs : Input(s)
  \/ Click
  \/ Enter
  \/ \E param \in UrlParams : OnLoad(param)
  \/ \E m \in Messages : ChainWrite(m)
  \/ \E r \in Reqs, ans \in CodeAnswers : GetCodeReturn(r, ans)
  \/ \E r \in Reqs, ans \in ExplorerAnswers : FetchReturn(r, ans)
  \/ \E r \in Reqs, ans \in CallAnswers : InvokeReturn(r, ans)
  \/ \E r \in Reqs : Tick(r)

Spec == Init /\ [][Next]_vars

\* The continuation of call r after whichever await it is suspended on.
Step(r) ==
  \/ \E ans \in CodeAnswers : GetCodeReturn(r, ans)
  \/ \E ans \in ExplorerAnswers : FetchReturn(r, ans)
  \/ \E ans \in CallAnswers : InvokeReturn(r, ans)
  \/ Tick(r)

\* Every awaited network operation settles and every timer fires.
FairSpec == Spec /\ \A r \in Reqs : WF_vars(Step(r))

(***************************************************************************)
(* Properties                                                              *)
(***************************************************************************)
\* The resolver and revealer steps in the order of the code.
Pipeline == <<"validate", "getCode", "fetch", "select", "invoke", "reveal">>

IsPrefix(s, t) == Len(s) <= Len(t) /\ s = SubSeq(t, 1, Len(s))

Occurrences(s, x) == Cardinality({k \in 1..Len(s) : s[k] = x})

\* Every call there is something to say about: the running ones and the one
\* the last step ended.
Calls == {proc[r] : r \in Reqs} \cup {ev.call}

\* The last step ended a call.
Ended == ev.call.pc = "done"

\* The last step was a continuation of a call on a network answer or a timer.
Continuation == ev.kind \in {"getCode", "fetch", "invoke", "tick"}

\* A candidate as the data model words it: kind function, mutability view or
\* pure, zero inputs, exactly one output, of type string.
Candidate(d) ==
  /\ d.type = "function"
  /\ d.stateMutability = "view" \/ d.stateMutability = "pure"
  /\ d.inputs = <<>>
  /\ d.outputs.defined /\ d.outputs.items = <<"string">>

CandidateIndices(abi) == {k \in 1..Len(abi) : Candidate(abi[k])}

\* C1: a continuation of a call that is no longer the latest one leaves the
\* displayed result, the error, the in-progress flag and the loading flag as
\* they are.
StaleCompletionsDropped ==
  [][(Continuation' /\ ev'.req < nreq)
       => UNCHANGED <<contractResult, error, isTyping, isLoading>>]_vars

\* C2: a unit is only ever emitted by the reveal that started last; a reveal
\* that a newer one has replaced emits nothing more.
SupersededRevealIsSilent ==
  ev.kind = "tick" => ev.req = lastReveal

\* C3: executeRead on an input that is empty, blank or not an address leaves
\* an InvalidAddress text in error and starts no call, hence no network
\* operation.
InvalidInputNeverReachesNetwork ==
  [][(ev'.kind \in {"rejected", "started"}
        /\ (Trim(ev'.data) = <<>> \/ ~isAddress(ev'.data)))
       => /\ ev'.kind = "rejected"
          /\ error' \in InvalidAddressMsgs
          /\ proc' = proc
          /\ nreq' = nreq]_vars

InvalidInputRejected ==
  /\ ev.kind = "rejected"
  /\ ev.data = Short
  /\ error = InvalidFormatMsg
  /\ nreq = 1

\* C4: when getCode answers the empty sentinel for a well-formed address, the
\* call ends there with the NotAContract text in error.
EmptyCodeIsNotAContract ==
  (ev.kind = "getCode" /\ ~ev.data.rejected /\ ev.data.code = "0x")
    => /\ Ended /\ ev.call.failed
       /\ isAddress(ev.call.address)
       /\ error = NotAContractMsg

EmptyCodeSeen ==
  /\ ev.kind = "getCode" /\ ~ev.data.rejected /\ ev.data.code = "0x"
  /\ error = NotAContractMsg
  /\ ev.call.address = AddrB

\* C5: an explorer body whose status is not "1" ends the call with the
\* UnverifiedContract text, under any HTTP status and any result field, and
\* the contract function is not invoked.
BadStatusIsUnverified ==
  (ev.kind = "fetch" /\ ~ev.data.rejected /\ ev.data.status # "1")
    => /\ Ended /\ ev.call.failed
       /\ error = UnverifiedMsg
       /\ Occurrences(ev.call.ops, "invoke") = 0

BadStatusWithInterfaceSeen ==
  /\ ev.kind = "fetch" /\ ~ev.data.rejected
  /\ ev.data.status = "missing" /\ ev.data.httpOk
  /\ ev.data.result = [kind |-> "json", value |-> AbiLate]
  /\ error = UnverifiedMsg

\* C6: a parsed interface without a candidate ends the call with the
\* NoMessageFunction text, and nothing is invoked.
NoCandidateIsNoMessage ==
  (/\ ev.kind = "fetch" /\ ~ev.data.rejected
   /\ ev.data.status = "1" /\ ev.data.result.kind = "json"
   /\ CandidateIndices(ev.data.result.value) = {})
    => /\ Ended /\ ev.call.failed
       /\ error = NoMessageMsg
       /\ Occurrences(ev.call.ops, "invoke") = 0

NoCandidateSeen ==
  /\ ev.kind = "fetch" /\ ~ev.data.rejected /\ ev.data.status = "1"
  /\ ev.data.result = [kind |-> "json", value |-> AbiNoCandidate]
  /\ error = NoMessageMsg

StepsInOrderAndFailureStops ==
  /\ \A c \in Calls :
       /\ IsPrefix(c.ops, Pipeline)
       /\ c.failed => /\ c.pc = "done"
                      /\ Occurrences(c.ops, "reveal") = 0
                      /\ c.chars = <<>> /\ c.i = 0
  /\ (Ended /\ ev.call.failed) => lastReveal # ev.req

FailedAtInvocation ==
  /\ Ended /\ ev.call.failed /\ ev.kind = "invoke"
  /\ ev.call.ops = SubSeq(Pipeline, 1, 5)
  /\ error = FallbackMsg

\* C9: when a call that ran alone ends after its reveal, the displayed text
\* is the string the contract call returned.
UninterruptedRevealIsVerbatim ==
  (Ended /\ ~ev.call.failed /\ ~ev.call.overlapped)
    => /\ contractResult = ev.call.result
       /\ ~isTyping

WaveRevealed ==
  /\ Ended /\ ~ev.call.failed /\ ~ev.call.overlapped
  /\ ev.kind = "tick"
  /\ ev.call.result = MsgWave
  /\ contractResult = MsgWave

\* C10: an uninterrupted reveal shows the prefixes of the message one unit
\* longer at every tick and ends with in-progress false and the whole message
\* shown; and once a reveal has been cancelled by a newer one after its first
\* emission, it emits nothing more.
RevealByPrefixesAndCancellable ==
  /\ \A c \in Calls :
       (ev.kind = "tick" /\ ~c.overlapped /\ c.pc \in {"tick", "done"}
          /\ (c = ev.call \/ (~Ended /\ c = proc[ev.req])))
         => /\ c.i = ev.data
            /\ contractResult = SubSeq(c.result, 1, c.i)
            /\ isTyping = (c.i < Len(c.result))
            /\ (c.pc = "done") = (c.i = Len(c.result))
  /\ (ev.kind = "tick" /\ ev.data > 1) => ev.req = lastReveal

\* The first half of a surrogate pair: a glyph is cut when the text ends on one.
HighSurrogates == {"D83D"}

\* The locals of the call the last step belongs to.
CallOfStep == IF Ended THEN ev.call ELSE proc[ev.req]

\* C11: no displayed state ends in the middle of a multi-unit character: an
\* emoji appears in one increment.
RevealNeverSplitsGlyph ==
  contractResult # <<>> => contractResult[Len(contractResult)] \notin HighSurrogates

BadPayloadIsUnverified ==
  (/\ ev.kind = "fetch" /\ ~ev.data.rejected
   /\ ev.data.status = "1"
   /\ ev.data.result.kind \in {"missing", "empty", "text"})
    => /\ Ended /\ ev.call.failed
       /\ error = UnverifiedMsg

\* C14: the displayed text is a prefix of the message of the call that
\* started last (empty while that call has no message yet).
DisplayIsPrefixOfLatest ==
  LET c == IF Ended /\ ev.req = nreq THEN ev.call ELSE proc[nreq] IN
  (nreq > 0 /\ (c.pc # "done" \/ c = ev.call))
    => IsPrefix(contractResult, c.result)

\* C15: at most one reveal loop waits on a timer.
AtMostOnePendingTimer ==
  Cardinality({r \in Reqs : proc[r].pc = "tick"}) <= 1

\* C16: a submission made while no other call runs, accepted or turned away,
\* leaves no earlier message on display.
SubmissionClearsDisplay ==
  (ev.kind \in {"rejected", "started"} /\ \A q \in Reqs : q # ev.req => ~Active(q))
    => contractResult = <<>>

\* C17: a network step that fails ends the call with its message in error,
\* or the fallback text when it has none; error is not empty and the reveal
\* has not started.
FailureCarriesMessage ==
  (Continuation /\ ev.kind # "tick" /\ ev.data.rejected)
    => /\ Ended /\ ev.call.failed
       /\ error = (IF ev.data.message = "" THEN "Failed to read contract"
                   ELSE ev.data.message)
       /\ error # ""
       /\ Occurrences(ev.call.ops, "reveal") = 0
       /\ lastReveal # ev.req

SilentFailureGetsFallback ==
  /\ ev.kind = "invoke" /\ ev.data.rejected /\ ev.data.message = ""
  /\ error = FallbackMsg
  /\ ~isTyping

\* C18: within one call getCode, the explorer request and the contract call
\* are each issued at most once; more network operations need a new call.
NoOperationRepeats ==
  \A c \in Calls :
    \A op \in {"getCode", "fetch", "invoke"} : Occurrences(c.ops, op) <= 1

EachOperationOnce ==
  /\ Ended /\ ~ev.call.failed
  /\ ev.call.ops = Pipeline
  /\ nreq = 2

\* C20: isLoading is true while some call is past validation and not over,
\* and isTyping is true while some reveal loop has units left.
FlagsMatchWorkInFlight ==
  /\ (\E r \in Reqs : Active(r)) => isLoading
  /\ (\E r \in Reqs : proc[r].pc = "tick") => isTyping

\* C19: under FairSpec every call that started ends, and at the moment it
\* ends (reveal completed or error set) the loading flag and the in-progress
\* flag are both false.
AttemptEndsWithFlagsCleared ==
  /\ \A r \in Reqs : Active(r) ~> (proc[r].pc = "done")
  /\ [](Ended => (~isLoading /\ ~isTyping))

====
